---- MODULE Spec2Model ----
(***************************************************************************)
(* The Fibonacci circuit of proof-aggregation/src/base_circuit/fibonacci.rs *)
(* as a state machine: one run of synthesize builds a constraint system    *)
(* (assigned advice cells, enabled selector rows, copy constraints) step   *)
(* by step, MockProver::verify checks it against the public inputs, and a  *)
(* prover who ignores synthesize may supply any advice values to the same  *)
(* constraint system.                                                      *)
(***************************************************************************)
EXTENDS Integers, Naturals, Sequences, FiniteSets, TLC

VARIABLES instance, cs, pc, i, prev_b, prev_c, result, verified,
          calls, failed_at, run, first, forged, verdict

vars == <<instance, cs, pc, i, prev_b, prev_c, result, verified,
          calls, failed_at, run, first, forged, verdict>>

(* ------------------------------ bounds --------------------------------- *)

\* order of the field F the circuit is generic over (Fp in the test)
Modulus == 5

\* number of MockProver::run calls in one behaviour (two in the test)
MaxRuns == 2

Field == 0 .. (Modulus - 1)

(* -------------------------- program constants -------------------------- *)

LoopStart == 3

LoopEndLonger == 10 + 1

LoopEnd == 10

OutRowOfB == 2 - 1

OutRow == 2

(* ------------------------------ the field ------------------------------ *)

\* Fp::from(n)
From(n) == n % Modulus

AddDropsRight(x, y) == x

\* the witness closures' a + b
Add(x, y) == (x + y) % Modulus

GateWithoutC(s, a, b, c) == (s * (a + b)) % Modulus

\* the polynomial of the "add" gate, s * (a + b - c)
Gate(s, a, b, c) == (s * (a + b + (Modulus - c))) % Modulus

(* ------------------------- the constraint system ----------------------- *)

Columns == {"a", "b", "c"}

NoCell == <<"none", 0>>

InstanceCell(row) == <<"instance", row>>

\* an advice assignment with no cell assigned
NoAdvice == [cell \in {} |-> 0]

EmptyCS == [rows |-> 0, selector |-> {}, advice |-> NoAdvice, copies |-> {}]

StaleProver(old) == old

\* MockProver::run starts every run from an empty constraint system
FreshProver(old) == EmptyCS

RowSelectorOff(row) == {}

\* config.selector.enable(&mut region, 0)
RowSelector(row) == {row}

FirstRowCFromOut(inst) == inst[OutRow + 1]

\* the value closure of the first row's col_c
FirstRowC(inst) == Add(inst[1], inst[2])

\* assign_first_row: the region lands on the next free row
AssignFirstRow(s, inst) ==
    LET row == s.rows IN
    [rows     |-> row + 1,
     selector |-> s.selector \cup RowSelector(row),
     advice   |-> s.advice @@ (<<"a", row>> :> inst[1])
                           @@ (<<"b", row>> :> inst[2])
                           @@ (<<"c", row>> :> FirstRowC(inst)),
     copies   |-> s.copies \cup {<<<<"a", row>>, InstanceCell(0)>>,
                                 <<<<"b", row>>, InstanceCell(1)>>}]

RowCopiesOnlyB(row, pb, pc2) == {<<<<"b", row>>, pc2>>}

\* the two copy_advice calls of assign_row
RowCopies(row, pb, pc2) == {<<<<"a", row>>, pb>>, <<<<"b", row>>, pc2>>}

\* assign_row
AssignRow(s, pb, pc2) ==
    LET row == s.rows IN
    [rows     |-> row + 1,
     selector |-> s.selector \cup RowSelector(row),
     advice   |-> s.advice @@ (<<"a", row>> :> s.advice[pb])
                           @@ (<<"b", row>> :> s.advice[pc2])
                           @@ (<<"c", row>> :> Add(s.advice[pb], s.advice[pc2])),
     copies   |-> s.copies \cup RowCopies(row, pb, pc2)]

\* expose_public: layouter.constrain_instance(cell, instance, row)
ExposePublic(s, cell, row) ==
    [s EXCEPT !.copies = @ \cup {<<cell, InstanceCell(row)>>}]

KeepPrevB(pb, pc2) == pb

\* prev_b = prev_c, the handle the next iteration receives first
NextPrevB(pb, pc2) == pc2

TrySwallow(ok, next) == next

\* the ? operator: an Err returns from synthesize at once
Try(ok, next) == IF ok THEN next ELSE "err"

\* the head of `for _i in 3..10`
LoopPc(j) == IF j < LoopEnd THEN "loop" ELSE "expose"

(* ------------------------------ verification --------------------------- *)

CellValue(inst, adv, cell) ==
    IF cell[1] = "instance" THEN inst[cell[2] + 1] ELSE adv[cell]

Known(adv, cell) == cell[1] = "instance" \/ cell \in DOMAIN adv

RowFilled(adv, r) == \A col \in Columns : <<col, r>> \in DOMAIN adv

GateHolds(s, adv, r) ==
    Gate(IF r \in s.selector THEN 1 ELSE 0,
         adv[<<"a", r>>], adv[<<"b", r>>], adv[<<"c", r>>]) = 0

CopyHolds(inst, adv, e) == CellValue(inst, adv, e[1]) = CellValue(inst, adv, e[2])

\* no gate and no copy constraint among the cells of adv is violated
Consistent(s, inst, adv) ==
    /\ \A r \in 0 .. (s.rows - 1) : RowFilled(adv, r) => GateHolds(s, adv, r)
    /\ \A e \in s.copies :
          (Known(adv, e[1]) /\ Known(adv, e[2])) => CopyHolds(inst, adv, e)

\* MockProver::verify
Verify(s, inst, adv) ==
    /\ \A r \in s.selector : RowFilled(adv, r)
    /\ \A e \in s.copies : Known(adv, e[1]) /\ Known(adv, e[2])
    /\ Consistent(s, inst, adv)

(* -------------------------------- states ------------------------------- *)

NoRun == [instance |-> <<>>, cs |-> EmptyCS, result |-> "none", verified |-> "none"]

Init ==
    /\ instance \in Field \X Field \X Field
    /\ cs = EmptyCS
    /\ pc = "first_row"
    /\ i = LoopStart
    /\ prev_b = NoCell
    /\ prev_c = NoCell
    /\ result = "none"
    /\ verified = "none"
    /\ calls = <<>>
    /\ failed_at = 0
    /\ run = 1
    /\ first = NoRun
    /\ forged = NoAdvice
    /\ verdict = "none"

\* the value synthesize has returned once control is at nextpc
Returned(nextpc) ==
    IF nextpc = "done" THEN "Ok" ELSE IF nextpc = "err" THEN "Err" ELSE result

\* the position in calls of the call that failed, 0 while none has
Failure(ok) == IF ok \/ failed_at > 0 THEN failed_at ELSE Len(calls) + 1

\* synthesize, lines 154-155
assign_first_row ==
    /\ pc = "first_row"
    /\ \E ok \in BOOLEAN :
          /\ calls' = Append(calls, [fn |-> "assign_first_row", args |-> <<>>])
          /\ failed_at' = Failure(ok)
          /\ pc' = Try(ok, LoopPc(LoopStart))
          /\ result' = Returned(pc')
          /\ IF ok
                THEN /\ cs' = AssignFirstRow(cs, instance)
                     /\ prev_b' = <<"b", cs.rows>>
                     /\ prev_c' = <<"c", cs.rows>>
                ELSE UNCHANGED <<cs, prev_b, prev_c>>
    /\ UNCHANGED <<instance, i, verified, run, first, forged, verdict>>

\* synthesize, lines 157-162: one iteration of the loop, on the handles the
\* calls before it returned
assign_row ==
    /\ pc = "loop"
    /\ {prev_b, prev_c} \subseteq DOMAIN cs.advice
    /\ \E ok \in BOOLEAN :
          /\ calls' = Append(calls, [fn |-> "assign_row", args |-> <<prev_b, prev_c>>])
          /\ failed_at' = Failure(ok)
          /\ pc' = Try(ok, LoopPc(i + 1))
          /\ result' = Returned(pc')
          /\ IF ok
                THEN /\ cs' = AssignRow(cs, prev_b, prev_c)
                     /\ prev_b' = NextPrevB(prev_b, prev_c)
                     /\ prev_c' = <<"c", cs.rows>>
                     /\ i' = i + 1
                ELSE UNCHANGED <<cs, prev_b, prev_c, i>>
    /\ UNCHANGED <<instance, verified, run, first, forged, verdict>>

\* synthesize, lines 165-167
expose_public ==
    /\ pc = "expose"
    /\ prev_c \in DOMAIN cs.advice
    /\ \E ok \in BOOLEAN :
          /\ calls' = Append(calls, [fn |-> "expose_public", args |-> <<prev_c>>])
          /\ failed_at' = Failure(ok)
          /\ pc' = Try(ok, "done")
          /\ result' = Returned(pc')
          /\ cs' = IF ok THEN ExposePublic(cs, prev_c, OutRow) ELSE cs
    /\ UNCHANGED <<instance, i, prev_b, prev_c, verified, run, first, forged, verdict>>

\* prover.verify() on the witness synthesize assigned
verify ==
    /\ pc = "done"
    /\ verified = "none"
    /\ verified' = IF Verify(cs, instance, cs.advice) THEN "Ok" ELSE "Err"
    /\ UNCHANGED <<instance, cs, pc, i, prev_b, prev_c, result, calls,
                   failed_at, run, first, forged, verdict>>

\* a further MockProver::run on the same circuit, the third public input
\* kept or changed
rerun ==
    /\ verified # "none"
    /\ run < MaxRuns
    /\ \E out \in Field :
          instance' = <<instance[1], instance[2], out>>
    /\ first' = [instance |-> instance, cs |-> cs, result |-> result,
                 verified |-> verified]
    /\ cs' = FreshProver(cs)
    /\ pc' = "first_row"
    /\ i' = LoopStart
    /\ prev_b' = NoCell
    /\ prev_c' = NoCell
    /\ result' = "none"
    /\ verified' = "none"
    /\ calls' = <<>>
    /\ run' = run + 1
    /\ UNCHANGED <<failed_at, forged, verdict>>

\* a prover fills the next row of the three advice columns with values of
\* its own; the row is refused as soon as a constraint among the cells
\* filled so far is violated
forge_row ==
    /\ verified # "none"
    /\ verdict \in {"none", "pending"}
    /\ LET r == Cardinality(DOMAIN forged) \div 3 IN
       /\ r < cs.rows
       /\ \E a \in Field, b \in Field, c \in Field :
             /\ forged' = forged @@ (<<"a", r>> :> a) @@ (<<"b", r>> :> b)
                                 @@ (<<"c", r>> :> c)
             /\ verdict' = IF ~Consistent(cs, instance, forged') THEN "rejected"
                           ELSE IF r + 1 < cs.rows THEN "pending"
                           ELSE IF Verify(cs, instance, forged') THEN "accepted"
                           ELSE "rejected"
    /\ UNCHANGED <<instance, cs, pc, i, prev_b, prev_c, result, verified,
                   calls, failed_at, run, first>>

Synthesize == assign_first_row \/ assign_row \/ expose_public

Next == Synthesize \/ verify \/ rerun

Spec == Init /\ [][Next]_vars

NextProver == Synthesize \/ verify \/ forge_row

SpecProver == Init /\ [][NextProver]_vars

(* ------------------------------- the claims ---------------------------- *)

\* the recurrence F(0) = a, F(1) = b, F(n) = F(n-1) + F(n-2) in the field
RECURSIVE F(_, _, _)
F(a, b, n) ==
    IF n = 0 THEN a
    ELSE IF n = 1 THEN b
    ELSE (F(a, b, n - 1) + F(a, b, n - 2)) % Modulus

F9 == F(instance[1], instance[2], 9)

Rows(s) == 0 .. (s.rows - 1)

\* C1: completeness. Whenever the third public input equals F(9) of the
\* recurrence started at the first two, the witness synthesize assigned
\* satisfies every gate, copy and instance constraint, and verify says Ok.
C1_Completeness ==
    (pc = "done" /\ instance[3] = F9) =>
        /\ Verify(cs, instance, cs.advice)
        /\ verified \in {"none", "Ok"}

\* a = 1, b = 1, out = 55 has been verified
C1_Witness ==
    /\ instance = <<From(1), From(1), From(55)>>
    /\ verified = "Ok"

\* C2: soundness. When the third public input differs from F(9), the honest
\* witness is refused, and so is every advice assignment a prover fills in:
\* none is accepted.
C2_Soundness ==
    (instance[3] # F9) =>
        /\ verified # "Ok"
        /\ verdict # "accepted"
        /\ (pc = "done" => ~Verify(cs, instance, cs.advice))

\* a = 1, b = 1, out = 56: a prover filled every row and was refused only at
\* the last one
C2_Witness ==
    /\ instance = <<From(1), From(1), From(56)>>
    /\ verified = "Err"
    /\ verdict = "rejected"
    /\ \A r \in Rows(cs) : RowFilled(forged, r)

RECURSIVE Class(_, _)
\* the cells tied to those of S by a chain of copy constraints
Class(copies, S) ==
    LET T == S \cup {e[1] : e \in {d \in copies : d[2] \in S}}
               \cup {e[2] : e \in {d \in copies : d[1] \in S}}
    IN  IF T = S THEN S ELSE Class(copies, T)

Tied(copies, x, y) == y \in Class(copies, {x})

ChainBroken(adv, r) ==
    \/ adv[<<"a", r>>] # adv[<<"b", r - 1>>]
    \/ adv[<<"b", r>>] # adv[<<"c", r - 1>>]

CopyViolated(s, inst, adv) ==
    \E e \in s.copies :
        Known(adv, e[1]) /\ Known(adv, e[2]) /\ ~CopyHolds(inst, adv, e)

\* C3: row chaining. In the constraint system of a finished synthesize, the
\* col_a cell of every non-first row is tied by copy constraints to the col_b
\* cell of the row before, and its col_b cell to the col_c cell of the row
\* before; and a prover's assignment in which a non-first row's a or b
\* differs from the previous row's b or c is refused by a copy constraint.
C3_RowChaining ==
    /\ (pc = "done" /\ verdict = "none") =>
          \A r \in Rows(cs) \ {0} :
              /\ Tied(cs.copies, <<"a", r>>, <<"b", r - 1>>)
              /\ Tied(cs.copies, <<"b", r>>, <<"c", r - 1>>)
    /\ \A r \in Rows(cs) \ {0} :
          (RowFilled(forged, r) /\ ChainBroken(forged, r)) =>
              /\ verdict = "rejected"
              /\ CopyViolated(cs, instance, forged)

\* a prover's row that satisfies c = a + b on its own, but not the chain,
\* has been refused
C3_Witness ==
    /\ verdict = "rejected"
    /\ \E r \in Rows(cs) \ {0, 1} :
          /\ RowFilled(forged, r)
          /\ ~RowFilled(forged, r + 1)
          /\ ChainBroken(forged, r)
          /\ GateHolds(cs, forged, r)

InstanceBindings(s) ==
    {e \in s.copies : e[1][1] = "instance" \/ e[2][1] = "instance"}

FirstRowBindings ==
    {<<<<"a", 0>>, InstanceCell(0)>>, <<<<"b", 0>>, InstanceCell(1)>>}

\* C4: the only constraints that involve the instance column are: row 0 with
\* the first row's col_a cell, row 1 with the first row's col_b cell and,
\* once synthesize has returned Ok, row 2 with the col_c cell of the last
\* assigned row.
C4_InstanceBindings ==
    /\ pc \in {"loop", "expose"} => InstanceBindings(cs) = FirstRowBindings
    /\ pc = "done" =>
          InstanceBindings(cs) =
              FirstRowBindings \cup {<<<<"c", cs.rows - 1>>, InstanceCell(2)>>}
    /\ pc = "done" => prev_c = <<"c", cs.rows - 1>>

C4_Witness ==
    /\ pc = "done"
    /\ Cardinality(InstanceBindings(cs)) = 3

\* C5: a wrong output never fails synthesis. synthesize returns Err only when
\* a region-assignment call failed; a run whose third public input differs
\* from the previous run's assigns the same advice values; and a wrong
\* output shows only as verify's Err.
C5_WrongOutputNotASynthesisError ==
    /\ result = "Err" => failed_at > 0
    /\ (run > 1 /\ pc = "done") => cs.advice = first.cs.advice
    /\ (verified # "none" /\ instance[3] # F9) =>
          (result = "Ok" /\ verified = "Err")

\* the second run, on another output that is not F(9), returned Ok and was
\* refused by verify
C5_Witness ==
    /\ run = 2
    /\ instance[3] # first.instance[3]
    /\ instance[3] # F9
    /\ result = "Ok"
    /\ verified = "Err"

AssignRowCalls == {k \in DOMAIN calls : calls[k].fn = "assign_row"}

CallOrder ==
    /\ Len(calls) = 9
    /\ calls[1].fn = "assign_first_row"
    /\ AssignRowCalls = 2 .. 8
    /\ calls[9] = [fn |-> "expose_public", args |-> << <<"c", 7>> >>]

\* C7 as stated: every assign_row call receives the b and c cells of the row
\* just before its own
C7_HandlesOfPrecedingRow ==
    pc = "done" =>
        /\ CallOrder
        /\ \A k \in AssignRowCalls :
              calls[k].args = << <<"b", k - 2>>, <<"c", k - 2>> >>

\* C7, amended: one successful run calls assign_first_row once, then
\* assign_row exactly 7 times, then expose_public once, on the c cell the 7th
\* call returned. Every assign_row call receives as prev_c the c cell of the
\* row just before its own; as prev_b the first call receives the first
\* row's b cell and every later call the c cell of the row two before its
\* own, to which the b cell of the row just before is copy-constrained.
C7_CallSequence ==
    pc = "done" =>
        /\ CallOrder
        /\ \A k \in AssignRowCalls :
              /\ calls[k].args[2] = <<"c", k - 2>>
              /\ calls[k].args[1] = IF k = 2 THEN <<"b", 0>> ELSE <<"c", k - 3>>
              /\ k > 2 => <<<<"b", k - 2>>, <<"c", k - 3>>>> \in cs.copies

C7_Witness ==
    /\ pc = "done"
    /\ Cardinality(AssignRowCalls) = 7

TraceRows(s, n) ==
    /\ s.rows = n
    /\ s.selector = 0 .. (n - 1)
    /\ DOMAIN s.advice = Columns \X (0 .. (n - 1))

\* C8 as stated: 9 rows, 0 through 8
C8_NineRows == pc = "done" => TraceRows(cs, 9)

\* C8, amended: the trace of one successful run has 8 rows in total, rows 0
\* through 7: 1 first row plus 7 subsequent rows, each with the selector
\* enabled.
C8_EightRows ==
    pc = "done" =>
        /\ TraceRows(cs, 8)
        /\ Cardinality(AssignRowCalls) = 7

C8_Witness ==
    /\ pc = "done"
    /\ 7 \in cs.selector

\* C9: gate invariant. After every step of synthesize the selector is
\* enabled on every row assigned so far, and on each of them the value of
\* col_c is the field sum of those of col_a and col_b, so the gate is 0.
C9_GateInvariant ==
    /\ cs.selector = Rows(cs)
    /\ \A r \in Rows(cs) :
          /\ RowFilled(cs.advice, r)
          /\ cs.advice[<<"c", r>>] =
                (cs.advice[<<"a", r>>] + cs.advice[<<"b", r>>]) % Modulus
          /\ GateHolds(cs, cs.advice, r)

\* a subsequent row whose sum wraps around the field
C9_Witness ==
    \E r \in Rows(cs) \ {0} :
        /\ r \in cs.selector
        /\ cs.advice[<<"a", r>>] + cs.advice[<<"b", r>>] >= Modulus

\* C10: a failed region assignment or instance binding ends synthesize at
\* once with Err: the failed call is the last call made, the constraint
\* system is never verified, and Ok is never returned.
C10_FailurePropagates ==
    failed_at > 0 =>
        /\ pc = "err"
        /\ result = "Err"
        /\ Len(calls) = failed_at
        /\ verified = "none"

\* a subsequent-row assignment failed
C10_Witness ==
    /\ failed_at > 2
    /\ calls[failed_at].fn = "assign_row"
    /\ result = "Err"

====
